---- MODULE Spec2Model ----
(***************************************************************************)
(* State-machine model of the e-ink slideshow firmware: app_main,          *)
(* Slideshow::init, Slideshow::task, handleButton, displayCurrentImage,    *)
(* the button interrupt handler and the deep-sleep wake configuration.     *)
(*                                                                         *)
(* Time is counted in FreeRTOS ticks.  The code keeps two tick stamps and  *)
(* only ever uses their distance to the current tick count, so the model   *)
(* keeps those distances (clock ages): a stamp taken "now" is age 0, and   *)
(* every blocking call of d ticks adds d to each age.  Every blocking call *)
(* of the controller (queue receive, panel commit, vTaskDelay) is a        *)
(* position of the control flow at which the interrupt handler may run.    *)
(*                                                                         *)
(* Spec is the whole firmware from power-on.  SpecNav and SpecAuto start   *)
(* where init hands over to the task and keep a history of the presses     *)
(* handled and of the auto-advance firings.  SpecLoad runs the BMP loader  *)
(* on one file.  SpecCalls calls the quantizer, the row-size arithmetic,   *)
(* the scaler, the card scan and displayCurrentImage once on each input.   *)
(***************************************************************************)
EXTENDS Integers, Sequences, FiniteSets, TLC

\* ------------------------------------------------------------------------
\* Bounds of the model (shortened configuration and input sizes)
\* ------------------------------------------------------------------------
\* ticks per second of the scheduler: one tick is one 100 ms poll window
configTICK_RATE_HZ == 10
\* config.hpp sets 10 s and 300 s; the model runs a shortened configuration
AUTO_ADVANCE_DELAY_SEC == 1
INACTIVITY_TIMEOUT_SEC == 3
\* longest panel commit, in ticks
MaxCommit == 1
\* longest panel commit of the timed auto-advance scenario, in ticks
ScenarioCommit == 5
\* button edges of the navigation runs
NavPresses == 3
\* pixel bytes of the largest file handed to the loader
MaxPixelBytes == 4
\* largest width and height of the small images handed to the loader
MaxSide == 2
\* side of the solid square of the rendering scenario
ScenarioSide == 10
\* distance of the colour levels the quantizer is called on
ColorStep == 16
\* largest small width the row size is computed for
MaxWidth == 40
\* largest width and height the scaler is called on
MaxDim == 48
\* most entries of a directory handed to the card scan
MaxEntries == 3
\* largest image list the card scan returns
MaxImages == 3
\* button edges the environment produces in one run
MaxPresses == 2
\* wakes from deep sleep in one run
MaxWakes == 1

\* ------------------------------------------------------------------------
\* Program constants
\* ------------------------------------------------------------------------
QUEUE_LENGTH == 10
\* "BM", little endian
BMP_SIGNATURE == 19778
\* sizeof(BMPHeader), packed
BMP_HEADER_SIZE == 54
\* the panel in portrait orientation
DISPLAY_WIDTH == 128
DISPLAY_HEIGHT == 296
\* widths of the integer and floating-point types
UINT8_MAX == 255
INT32_MAX == 2147483647
FLT_MANT_DIG == 24
\* cap of the card scan
MAX_IMAGE_FILES == 100

UP == "UP"
SELECT == "SELECT"
DOWN == "DOWN"
SlideshowButtonId == {UP, SELECT, DOWN}

INIT == "INIT"
SCANNING == "SCANNING"
DISPLAYING == "DISPLAYING"
AUTO_ADVANCE == "AUTO_ADVANCE"
ERROR == "ERROR"
SLEEPING == "SLEEPING"
State == {INIT, SCANNING, DISPLAYING, AUTO_ADVANCE, ERROR, SLEEPING}

ESP_EXT1_WAKEUP_ALL_LOW == "ALL_LOW"
ESP_EXT1_WAKEUP_ANY_LOW == "ANY_LOW"

pdMS_TO_TICKS(ms) == (ms * configTICK_RATE_HZ) \div 1000

T_POLL == pdMS_TO_TICKS(100)
T_ADVANCE == pdMS_TO_TICKS(AUTO_ADVANCE_DELAY_SEC * 1000)
T_INACTIVE == pdMS_TO_TICKS(INACTIVITY_TIMEOUT_SEC * 1000)
T_INDICATOR == pdMS_TO_TICKS(1000)
T_SLEEP_DELAY == pdMS_TO_TICKS(100)

VARIABLES
    pc,                     \* position of the firmware's control flow
    s_state,
    s_imageFiles,           \* list of files; each entry: does its load succeed
    s_currentImageIndex,
    s_autoAdvance,
    activityAge,            \* xTaskGetTickCount() - s_lastActivityTick
    advanceAge,             \* xTaskGetTickCount() - s_lastAutoAdvanceTick
    s_buttonQueue,          \* FIFO of button events
    s_mounted,
    isrInstalled,           \* gpio_isr_handler_add done for the three lines
    fb,                     \* framebuffer of the panel driver
    panel,                  \* frame last committed to the panel
    ext1,                   \* EXT1 wake configuration
    lines,                  \* button lines held low while the chip sleeps
    budget,                 \* button edges the environment still produces
    arrivals,               \* button edges served since the cold start
    consumed,               \* arrival numbers taken from the queue, in order
    dropped,                \* arrival numbers the full queue refused
    wakes,                  \* wakes from deep sleep so far
    sleptWith,              \* index and auto flag at the last deep-sleep entry
    recording,              \* whether this run keeps the two histories below
    handled,                \* ids of the presses handled since the cold start
    advances,               \* auto-advance firings since the cold start
    file,                   \* the file handed to loadAndDisplayBMP
    loaded,                 \* what loadAndDisplayBMP did with it
    call,                   \* a function of the loader or the card under call
    result                  \* what that call returned

vars == <<pc, s_state, s_imageFiles, s_currentImageIndex, s_autoAdvance,
          activityAge, advanceAge, s_buttonQueue, s_mounted,
          isrInstalled, fb, panel, ext1, lines, budget, arrivals, consumed,
          dropped, wakes, sleptWith, recording, handled, advances, file,
          loaded, call, result>>

\* ------------------------------------------------------------------------
\* Frames
\* ------------------------------------------------------------------------
Frame(kind, idx, text, overlay) ==
    [kind |-> kind, idx |-> idx, text |-> text, overlay |-> overlay]

BlankFrame == Frame("blank", 0, "", "")
TextFrame(t) == Frame("text", 0, t, "")
ErrorFrame(t) == Frame("error", 0, t, "")
ImageFrame(i) == Frame("image", i, "", "")

\* drawLoadingScreen / drawErrorScreen: clearBuffer, print, display()
drawLoadingScreen(message) == TextFrame(message)
drawErrorScreen(message) == ErrorFrame(message)

\* the loader's variables when no load is under way
NoFile ==
    [fileSize |-> 0, bytesRead |-> 0, signature |-> 0, bitsPerPixel |-> 0,
     compression |-> 0, dataOffset |-> 0, width |-> 0, height |-> 0,
     pixels |-> <<>>]
NotLoaded ==
    [done |-> FALSE, ok |-> FALSE, cleared |-> FALSE, drawn |-> FALSE,
     committed |-> FALSE, fault |-> FALSE, scaledWidth |-> 0,
     scaledHeight |-> 0, offsetX |-> 0, offsetY |-> 0, srcX |-> <<>>,
     srcY |-> <<>>, ink |-> <<>>, reads |-> {}]

\* no function is under call
NoCall == [fn |-> "none"]
NoResult == [fn |-> "none"]

NoWake == [mask |-> {}, mode |-> "none"]
NoSleep == [index |-> 0, auto |-> FALSE, slept |-> FALSE]

\* faulty variant of ColdStart: the auto-advance flag survives the reset
ColdStartRetained ==
    /\ pc' = "boot"
    /\ s_state' = INIT
    /\ s_imageFiles' = <<>>
    /\ s_currentImageIndex' = 0
    /\ UNCHANGED s_autoAdvance
    /\ activityAge' = 0
    /\ advanceAge' = 0
    /\ s_buttonQueue' = <<>>
    /\ s_mounted' = FALSE
    /\ isrInstalled' = FALSE
    /\ fb' = BlankFrame
    /\ ext1' = NoWake
    /\ arrivals' = 0
    /\ consumed' = <<>>
    /\ dropped' = {}
    /\ handled' = <<>>
    /\ advances' = 0

\* ------------------------------------------------------------------------
\* Cold state: the statics of slideshow.cpp, button.cpp and sd_card.cpp as
\* their initialisers leave them, tick count 0.  A wake from deep sleep and
\* esp_restart both end here; the panel keeps its last frame.
\* ------------------------------------------------------------------------
ColdStart ==
    /\ pc' = "boot"
    /\ s_state' = INIT
    /\ s_imageFiles' = <<>>
    /\ s_currentImageIndex' = 0
    /\ s_autoAdvance' = FALSE
    /\ activityAge' = 0
    /\ advanceAge' = 0
    /\ s_buttonQueue' = <<>>
    /\ s_mounted' = FALSE
    /\ isrInstalled' = FALSE
    /\ fb' = BlankFrame
    /\ ext1' = NoWake
    /\ arrivals' = 0
    /\ consumed' = <<>>
    /\ dropped' = {}
    /\ handled' = <<>>
    /\ advances' = 0

Init ==
    /\ pc = "boot"
    /\ s_state = INIT
    /\ s_imageFiles = <<>>
    /\ s_currentImageIndex = 0
    /\ s_autoAdvance = FALSE
    /\ activityAge = 0
    /\ advanceAge = 0
    /\ s_buttonQueue = <<>>
    /\ s_mounted = FALSE
    /\ isrInstalled = FALSE
    /\ fb = BlankFrame
    /\ panel = BlankFrame
    /\ ext1 = NoWake
    /\ lines = {}
    /\ budget = MaxPresses
    /\ arrivals = 0
    /\ consumed = <<>>
    /\ dropped = {}
    /\ wakes = 0
    /\ sleptWith = NoSleep
    /\ recording = FALSE
    /\ handled = <<>>
    /\ advances = 0
    /\ file = NoFile
    /\ loaded = NotLoaded
    /\ call = NoCall
    /\ result = NoResult

\* ------------------------------------------------------------------------
\* Time and the panel
\* ------------------------------------------------------------------------
CommitTicks == 0..MaxCommit

\* d ticks pass in a blocking call and neither stamp is touched
Elapse(d) ==
    /\ activityAge' = activityAge + d
    /\ advanceAge' = advanceAge + d

\* display(): blocks for d ticks, then the panel shows the framebuffer
Commit(d) ==
    /\ Elapse(d)
    /\ panel' = fb

\* ------------------------------------------------------------------------
\* displayCurrentImage: try the current image; on a failed load step to the
\* next index and recurse unless the index wrapped to 0.  The result is the
\* index left behind, whether some load succeeded, and the loads attempted.
\* ------------------------------------------------------------------------
\* faulty variant of displayCurrentImage: the first wrap of the index to 0
\* does not stop the recursion, the second one does
RECURSIVE SkipPastWrap(_, _, _)
SkipPastWrap(files, index, wrapped) ==
    IF Len(files) = 0 \/ index >= Len(files)
      THEN [index |-> index, loaded |-> FALSE, attempts |-> 0]
      ELSE IF files[index + 1]
        THEN [index |-> index, loaded |-> TRUE, attempts |-> 1]
        ELSE LET next == (index + 1) % Len(files) IN
             IF next # 0 \/ ~wrapped
               THEN LET r == SkipPastWrap(files, next, wrapped \/ next = 0)
                    IN  [r EXCEPT !.attempts = @ + 1]
               ELSE [index |-> next, loaded |-> FALSE, attempts |-> 1]

displayCurrentImageTwice(files, index) == SkipPastWrap(files, index, FALSE)

RECURSIVE displayCurrentImage(_, _)
displayCurrentImage(files, index) ==
    IF Len(files) = 0 \/ index >= Len(files)
      THEN [index |-> index, loaded |-> FALSE, attempts |-> 0]
      ELSE IF files[index + 1]
        THEN [index |-> index, loaded |-> TRUE, attempts |-> 1]
        ELSE LET next == (index + 1) % Len(files) IN
             IF next # 0
               THEN LET r == displayCurrentImage(files, next) IN
                    [r EXCEPT !.attempts = @ + 1]
               ELSE [index |-> next, loaded |-> FALSE, attempts |-> 1]

\* loadAndDisplayBMP on success: clearBuffer, draw the pixels, display()
ShownFrame(r) == IF r.loaded THEN ImageFrame(r.index) ELSE fb

\* what SDCard::scanForImages can return
ImageLists ==
    UNION {[1..n -> BOOLEAN] : n \in 0..MaxImages}

\* faulty variant of ScanEmpty: an empty scan is not noticed
ScanNeverEmpty(imageCount) == FALSE

\* Slideshow::init gives up when the scan found nothing
ScanEmpty(imageCount) == imageCount = 0

\* ------------------------------------------------------------------------
\* SlideshowButtons::configure_wakeup and the EXT1 wake source
\* ------------------------------------------------------------------------
\* faulty variant of configure_wakeup: no line is armed
configure_wakeupUnarmed == [mask |-> {}, mode |-> "none"]

configure_wakeup ==
    [mask |-> {UP, SELECT, DOWN}, mode |-> ESP_EXT1_WAKEUP_ALL_LOW]

\* does the EXT1 wake source fire with these lines low
Ext1Fires(cfg, low) ==
    CASE cfg.mode = ESP_EXT1_WAKEUP_ALL_LOW ->
           cfg.mask # {} /\ cfg.mask \subseteq low
      [] cfg.mode = ESP_EXT1_WAKEUP_ANY_LOW -> cfg.mask \cap low # {}
      [] OTHER -> FALSE

\* ------------------------------------------------------------------------
\* Button events
\* ------------------------------------------------------------------------
Event(id, n) == [id |-> id, pressed |-> TRUE, n |-> n]

\* xQueueSendFromISR: append unless the queue is full
xQueueSendFromISR(queue, ev) ==
    IF Len(queue) < QUEUE_LENGTH THEN Append(queue, ev) ELSE queue

\* faulty variant of PrevIndex: no wrap below 0
PrevIndexNoWrap(index, n) == IF index = 0 THEN 0 ELSE index - 1

\* UP: previous image, wrapping from 0 to the last one
PrevIndex(index, n) == IF index = 0 THEN n - 1 ELSE index - 1

\* faulty variant of NextIndex: no wrap at the end of the list
NextIndexNoWrap(index, n) == index + 1

\* DOWN and auto-advance: next image, wrapping
NextIndex(index, n) == (index + 1) % n


\* ------------------------------------------------------------------------
\* Inks of the panel and the tricolor quantizer
\* ------------------------------------------------------------------------
EPD_BLACK == "BLACK"
EPD_WHITE == "WHITE"
EPD_RED == "RED"
Inks == {EPD_BLACK, EPD_WHITE, EPD_RED}

\* truncation of an integer to uint8_t
U8(v) == v % (UINT8_MAX + 1)

\* the grayscale intermediate, kept in a uint8_t
Gray(r, g, b) == U8((r * 30 + g * 59 + b * 11) \div 100)

\* faulty variant of rgbToEinkColor: red does not ask for gray > 100
rgbToEinkColorAnyGray(r, g, b) ==
    LET gray == Gray(r, g, b)
        isRed == r > 128 /\ r > g /\ r > b
    IN  IF gray < 85 THEN EPD_BLACK
        ELSE IF isRed THEN EPD_RED
        ELSE EPD_WHITE

\* ImageLoader::rgbToEinkColor
rgbToEinkColor(r, g, b) ==
    LET gray == Gray(r, g, b)
        isRed == r > 128 /\ r > g /\ r > b
    IN  IF gray < 85 THEN EPD_BLACK
        ELSE IF isRed /\ gray > 100 THEN EPD_RED
        ELSE EPD_WHITE


\* ------------------------------------------------------------------------
\* Single-precision arithmetic of the scaler.  A float is m * 2^e with a
\* significand m of at most FLT_MANT_DIG bits (m = 0 is zero, inf is the
\* result of a division by zero); every operation rounds the exact result
\* to the nearest float, ties to the even significand.
\* ------------------------------------------------------------------------
RECURSIVE Pow2(_)
Pow2(n) == IF n = 0 THEN 1 ELSE 2 * Pow2(n - 1)

F32(m, e) == [m |-> m, e |-> e, inf |-> FALSE]
F32Inf == [m |-> 0, e |-> 0, inf |-> TRUE]
F32Zero == F32(0, 0)

\* static_cast<float> of an unsigned integer below 2^24: exact
IntF32(i) == F32(i, 0)

\* n and d brought to d <= n < 2d by doublings; k counts those of d minus
\* those of n, so that the quotient is unchanged times 2^k
RECURSIVE Align(_, _, _)
Align(n, d, k) ==
    IF n < d THEN Align(2 * n, d, k - 1)
    ELSE IF n >= 2 * d THEN Align(n, 2 * d, k + 1)
    ELSE [n |-> n, d |-> d, k |-> k]

\* binary long division: q extended by `bits` quotient bits of r / d
RECURSIVE LongDiv(_, _, _, _)
LongDiv(r, d, q, bits) ==
    IF bits = 0 THEN [q |-> q, r |-> r]
    ELSE IF 2 * r >= d THEN LongDiv(2 * r - d, d, 2 * q + 1, bits - 1)
    ELSE LongDiv(2 * r, d, 2 * q, bits - 1)

\* a significand q with remainder r of d behind it, rounded to nearest even
\* and renormalised
RoundEven(q, r, d, e) ==
    LET up == 2 * r > d \/ (2 * r = d /\ q % 2 = 1)
        m == IF up THEN q + 1 ELSE q
    IN  IF m = Pow2(FLT_MANT_DIG) THEN F32(m \div 2, e + 1) ELSE F32(m, e)

\* a / b
F32Div(a, b) ==
    IF b.inf THEN F32Zero
    ELSE IF b.m = 0 THEN F32Inf
    ELSE IF a.inf THEN F32Inf
    ELSE IF a.m = 0 THEN F32Zero
    ELSE LET al == Align(a.m, b.m, 0)
             ld == LongDiv(al.n - al.d, al.d, 1, FLT_MANT_DIG - 1)
         IN  RoundEven(ld.q, ld.r, al.d,
                       a.e - b.e + al.k - (FLT_MANT_DIG - 1))

\* the number of bits p has beyond `width` bits
RECURSIVE ExtraBits(_, _)
ExtraBits(p, width) ==
    IF p < Pow2(width) THEN 0 ELSE 1 + ExtraBits(p \div 2, width)

\* the exact product i * m as hi * 2^12 + lo with lo below 2^12, for an
\* integer i below 2^18 and a significand m
WideProduct(i, m) ==
    LET low == i * (m % Pow2(12))
    IN  [hi |-> i * (m \div Pow2(12)) + low \div Pow2(12),
         lo |-> low % Pow2(12)]

\* i * a for an unsigned integer i (converted exactly) and a finite float a:
\* the exact product, its t bits beyond the significand's width rounded off
F32MulInt(i, a) ==
    IF i = 0 \/ a.m = 0 THEN F32Zero
    ELSE LET p == WideProduct(i, a.m)
             t == ExtraBits(p.hi, FLT_MANT_DIG - 12)
         IN  IF t <= 12
             THEN RoundEven(p.hi * Pow2(12 - t) + p.lo \div Pow2(t),
                            p.lo % Pow2(t), Pow2(t), a.e + t)
             ELSE RoundEven(p.hi \div Pow2(t - 12),
                            (p.hi % Pow2(t - 12)) * Pow2(12) + p.lo,
                            Pow2(t), a.e + t)

\* a < b for positive floats with full-width significands
F32Less(a, b) ==
    IF a.inf THEN FALSE
    ELSE IF b.inf THEN TRUE
    ELSE a.e < b.e \/ (a.e = b.e /\ a.m < b.m)

\* std::min(a, b): b when b < a, a otherwise
F32Min(a, b) == IF F32Less(b, a) THEN b ELSE a

\* static_cast<uint32_t> of a finite float: the fraction is dropped
F32ToU32(a) ==
    IF a.m = 0 THEN 0
    ELSE IF a.e >= 0 THEN a.m * Pow2(a.e)
    ELSE IF -a.e > FLT_MANT_DIG THEN 0
    ELSE a.m \div Pow2(-a.e)


\* ------------------------------------------------------------------------
\* uint32_t arithmetic of the row size.  A value is hi * 2^16 + lo; a
\* 32-bit result keeps the low 16 bits of hi.
\* ------------------------------------------------------------------------
HalfWord == Pow2(16)

Wide(hi, lo) == [hi |-> hi + lo \div HalfWord, lo |-> lo % HalfWord]
ToWide(i) == Wide(0, i)
WMul(x, k) == Wide(x.hi * k, x.lo * k)
WAdd(x, k) == Wide(x.hi, x.lo + k)
WDiv(x, k) ==
    [hi |-> x.hi \div k, lo |-> ((x.hi % k) * HalfWord + x.lo) \div k]

\* truncation to uint32_t
U32(x) == [hi |-> x.hi % HalfWord, lo |-> x.lo]
U32Mul(x, k) == U32(WMul(x, k))
U32Add(x, k) == U32(WAdd(x, k))

\* the integer a value stands for (below 2^31)
WValue(x) == x.hi * HalfWord + x.lo

\* faulty variant of rowSize: rows are not padded to four bytes
rowSizeUnpadded(bitsPerPixel, imgWidth) ==
    IF bitsPerPixel = 24 THEN U32Mul(imgWidth, 3)
    ELSE IF bitsPerPixel = 8 THEN imgWidth
    ELSE WDiv(U32Add(imgWidth, 7), 8)

\* the rowSize of the three drawing branches, imgWidth as a uint32_t
rowSize(bitsPerPixel, imgWidth) ==
    IF bitsPerPixel = 24
    THEN U32Mul(WDiv(U32Add(U32Mul(imgWidth, 3), 3), 4), 4)
    ELSE IF bitsPerPixel = 8
    THEN U32Mul(WDiv(U32Add(imgWidth, 3), 4), 4)
    ELSE U32Mul(WDiv(U32Add(WDiv(U32Add(imgWidth, 7), 8), 3), 4), 4)

\* ------------------------------------------------------------------------
\* The scaler: scale factor, scaled size and centring offsets
\* ------------------------------------------------------------------------
\* (a - b) / 2 in uint32_t, for a and b below 2^31: a difference below zero
\* wraps around 2^32
U32HalfDiff(a, b) ==
    IF b <= a THEN (a - b) \div 2
    ELSE INT32_MAX - ((b - a + 1) \div 2 - 1)

\* the scale factor: both axes when both dimensions are non-zero; a zero
\* dimension makes its own quotient infinite and std::min takes the other
Scale(imgWidth, imgHeight) ==
    LET scaleX == F32Div(IntF32(DISPLAY_WIDTH), IntF32(imgWidth))
        scaleY == F32Div(IntF32(DISPLAY_HEIGHT), IntF32(imgHeight))
    IN  F32Min(scaleX, scaleY)

FitToDisplay(imgWidth, imgHeight) ==
    LET scale == Scale(imgWidth, imgHeight)
        scaledWidth == F32ToU32(F32MulInt(imgWidth, scale))
        scaledHeight == F32ToU32(F32MulInt(imgHeight, scale))
    IN  [scale |-> scale,
         scaledWidth |-> scaledWidth,
         scaledHeight |-> scaledHeight,
         offsetX |-> U32HalfDiff(DISPLAY_WIDTH, scaledWidth),
         offsetY |-> U32HalfDiff(DISPLAY_HEIGHT, scaledHeight)]

\* faulty variant of SourceCoord: the coordinate is taken at the far edge of
\* the destination pixel
SourceCoordFarEdge(d, scale) == F32ToU32(F32Div(IntF32(d + 1), scale))

\* srcX of column x, srcY of row y: the destination coordinate divided by
\* the scale factor, fraction dropped
SourceCoord(d, scale) == F32ToU32(F32Div(IntF32(d), scale))


\* ------------------------------------------------------------------------
\* ImageLoader::loadAndDisplayBMP: the checks of the file, the scaler and
\* the three drawing branches.  A file is its size as SDCard::getFileSize
\* reports it, the bytes SDCard::readFile returns, the header fields the
\* loader reads and the buffer bytes behind the header.  A depth of 4 passes
\* the depth check and has no drawing branch.
\* ------------------------------------------------------------------------
abs(v) == IF v < 0 THEN -v ELSE v

Range(fn) == {fn[i] : i \in DOMAIN fn}

\* a read of the buffer at offset o lies inside the allocation
InBuffer(f, o) == 0 <= o /\ o < f.fileSize

\* A read outside the buffer is undefined: it returns some byte or the load
\* traps.  The pixel data of every file starts at or behind the header.
OobBytes == {0, UINT8_MAX}
Fault == [fault |-> TRUE, byte |-> 0]
OobOutcomes == [fault : {FALSE}, byte : OobBytes] \cup {Fault}

ByteAt(f, o, oob) ==
    IF InBuffer(f, o) /\ o >= BMP_HEADER_SIZE
    THEN f.pixels[o - BMP_HEADER_SIZE + 1]
    ELSE oob.byte

\* faulty variant of SourceRow: rows are never flipped
SourceRowNoFlip(srcY, imgHeight, topDown) == srcY

\* the row of pixel memory for image row srcY: bottom-up unless topDown
SourceRow(srcY, imgHeight, topDown) ==
    IF topDown THEN srcY ELSE imgHeight - 1 - srcY

BytesPerPixel(bitsPerPixel) == IF bitsPerPixel = 24 THEN 3 ELSE 1

\* offset of the first byte of a source pixel from pixelData
PixelOffset(bitsPerPixel, rs, srcY, srcX) ==
    IF bitsPerPixel = 24 THEN srcY * rs + srcX * 3
    ELSE IF bitsPerPixel = 8 THEN srcY * rs + srcX
    ELSE srcY * rs + srcX \div 8

\* the ink drawn for the source pixel at memory row srcY, column srcX
PixelInk(f, oob, rs, srcY, srcX) ==
    LET o == f.dataOffset + PixelOffset(f.bitsPerPixel, rs, srcY, srcX)
    IN  IF f.bitsPerPixel = 24
        THEN rgbToEinkColor(ByteAt(f, o + 2, oob), ByteAt(f, o + 1, oob),
                            ByteAt(f, o, oob))
        ELSE IF f.bitsPerPixel = 8
        THEN IF ByteAt(f, o, oob) < 128 THEN EPD_BLACK ELSE EPD_WHITE
        ELSE IF (ByteAt(f, o, oob) \div Pow2(7 - (srcX % 8))) % 2 = 1
             THEN EPD_BLACK ELSE EPD_WHITE

\* faulty variant of Rejected: the framebuffer is cleared before the header
\* is checked
RejectedAfterClear ==
    [done |-> TRUE, ok |-> FALSE, cleared |-> TRUE, drawn |-> FALSE,
     committed |-> FALSE, fault |-> FALSE, scaledWidth |-> 0,
     scaledHeight |-> 0, offsetX |-> 0, offsetY |-> 0, srcX |-> <<>>,
     srcY |-> <<>>, ink |-> <<>>, reads |-> {}]

Rejected ==
    [done |-> TRUE, ok |-> FALSE, cleared |-> FALSE, drawn |-> FALSE,
     committed |-> FALSE, fault |-> FALSE, scaledWidth |-> 0,
     scaledHeight |-> 0, offsetX |-> 0, offsetY |-> 0, srcX |-> <<>>,
     srcY |-> <<>>, ink |-> <<>>, reads |-> {}]

\* from the dimensions on: srcX and srcY are the source column of every
\* destination column and the memory row of every destination row, ink the
\* ink of every source pixel drawn, reads the buffer offsets read
Render(f, oob) ==
    LET imgWidth == abs(f.width)
        imgHeight == abs(f.height)
        topDown == f.height < 0
        fit == FitToDisplay(imgWidth, imgHeight)
        branch == f.bitsPerPixel \in {24, 8, 1}
        rs == WValue(rowSize(f.bitsPerPixel, ToWide(imgWidth)))
        srcX == IF ~branch THEN <<>>
                ELSE [x \in 0..(fit.scaledWidth - 1) |->
                         SourceCoord(x, fit.scale)]
        srcY == IF ~branch THEN <<>>
                ELSE [y \in 0..(fit.scaledHeight - 1) |->
                         SourceRow(SourceCoord(y, fit.scale), imgHeight,
                                   topDown)]
        sampled == Range(srcY) \X Range(srcX)
        reads == {f.dataOffset
                    + PixelOffset(f.bitsPerPixel, rs, p[1], p[2]) + k :
                  p \in sampled, k \in 0..(BytesPerPixel(f.bitsPerPixel) - 1)}
        fault == oob.fault /\ \E o \in reads : ~InBuffer(f, o)
    IN  [done |-> TRUE, ok |-> ~fault, cleared |-> TRUE,
         drawn |-> sampled # {}, committed |-> ~fault, fault |-> fault,
         scaledWidth |-> fit.scaledWidth, scaledHeight |-> fit.scaledHeight,
         offsetX |-> fit.offsetX, offsetY |-> fit.offsetY,
         srcX |-> srcX, srcY |-> srcY,
         ink |-> [p \in sampled |-> PixelInk(f, oob, rs, p[1], p[2])],
         reads |-> reads]

loadAndDisplayBMP(f, oob) ==
    IF f.fileSize < 0 \/ f.fileSize < BMP_HEADER_SIZE THEN Rejected
    ELSE IF f.bytesRead # f.fileSize THEN Rejected
    ELSE IF f.signature # BMP_SIGNATURE THEN Rejected
    ELSE IF /\ f.bitsPerPixel # 1
            /\ f.bitsPerPixel # 4
            /\ f.bitsPerPixel # 8
            /\ f.bitsPerPixel # 24 THEN Rejected
    ELSE Render(f, oob)

\* the ink of the framebuffer at column x, row y of the drawn block
BlockInk(r, x, y) == r.ink[<<r.srcY[y], r.srcX[x]>>]


\* ------------------------------------------------------------------------
\* The files the loader is run on
\* ------------------------------------------------------------------------
\* files that differ in what the checks look at, around a 1 x 1 image of
\* white bytes: size, bytes read, signature, depth and compression code
HeaderFile(fs, br, sig, bpp, cmp) ==
    [fileSize |-> fs, bytesRead |-> br, signature |-> sig,
     bitsPerPixel |-> bpp, compression |-> cmp,
     dataOffset |-> BMP_HEADER_SIZE, width |-> 1, height |-> 1,
     pixels |-> [i \in 1..(fs - BMP_HEADER_SIZE) |-> UINT8_MAX]]

BmpFiles ==
    {HeaderFile(fs, br, sig, bpp, cmp) :
        fs \in {-1, BMP_HEADER_SIZE - 1, BMP_HEADER_SIZE}
                 \cup {BMP_HEADER_SIZE + k : k \in 1..MaxPixelBytes},
        br \in {-1} \cup 0..(BMP_HEADER_SIZE + MaxPixelBytes),
        sig \in {BMP_SIGNATURE, 0},
        bpp \in {1, 4, 8, 16, 24, 32},
        cmp \in {0, 1}}

\* the pixel values of the drawn depths: red, white and black at 24 bpp
\* (stored blue, green, red), three grays at 8 bpp, set and clear at 1 bpp
Palette(bpp) ==
    IF bpp = 24
    THEN << <<0, 0, UINT8_MAX>>, <<UINT8_MAX, UINT8_MAX, UINT8_MAX>>,
            <<0, 0, 0>> >>
    ELSE IF bpp = 8 THEN << <<100>>, <<UINT8_MAX>>, <<0>> >>
    ELSE << <<1>>, <<0>> >>

\* pictures: the palette entry of the pixel at row r, column c of pixel
\* memory is (a * r + b * c + k) modulo the palette size (solid, striped
\* either way, chequered)
Patterns == [a : {0, 1}, b : {0, 1}, k : {0, 1}]

PaletteEntry(bpp, pat, r, c) ==
    Palette(bpp)[((pat.a * r + pat.b * c + pat.k) % Len(Palette(bpp))) + 1]

\* n bits of a 1-bpp row from column c on, most significant first
RECURSIVE PackBits(_, _, _, _, _)
PackBits(pat, r, c, w, n) ==
    IF n = 0 THEN 0
    ELSE (IF c < w THEN PaletteEntry(1, pat, r, c)[1] ELSE 0) * Pow2(n - 1)
         + PackBits(pat, r, c + 1, w, n - 1)

\* byte j of row r of pixel memory; padding bytes are zero
RowByte(bpp, pat, w, r, j) ==
    IF bpp = 1 THEN PackBits(pat, r, 8 * j, w, 8)
    ELSE IF j \div BytesPerPixel(bpp) < w
         THEN PaletteEntry(bpp, pat, r, j \div BytesPerPixel(bpp))
                  [(j % BytesPerPixel(bpp)) + 1]
         ELSE 0

\* a complete image of w x |h| pixels whose pixel data is announced skew
\* bytes behind its place
PixelFile(bpp, w, h, pat, skew) ==
    LET rs == WValue(rowSize(bpp, ToWide(w)))
        n == rs * abs(h)
    IN  [fileSize |-> BMP_HEADER_SIZE + n,
         bytesRead |-> BMP_HEADER_SIZE + n,
         signature |-> BMP_SIGNATURE, bitsPerPixel |-> bpp,
         compression |-> 0, dataOffset |-> BMP_HEADER_SIZE + skew,
         width |-> w, height |-> h,
         pixels |-> [i \in 1..n |->
                        RowByte(bpp, pat, w, (i - 1) \div rs, (i - 1) % rs)]]

Depths == {1, 8, 24}

\* small images of every drawn depth, both row orders, with a zero width
\* or a zero height (not both), and the two solid red squares
PixelFiles ==
    {PixelFile(bpp, dim[1], dim[2], pat, skew) :
        bpp \in Depths,
        dim \in ((0..MaxSide) \X ((-MaxSide)..MaxSide)) \ {<<0, 0>>},
        pat \in Patterns, skew \in {0, 4}}
    \cup {PixelFile(24, ScenarioSide, h, [a |-> 0, b |-> 0, k |-> 0], 0) :
            h \in {ScenarioSide, -ScenarioSide}}

LoaderFiles == BmpFiles \cup PixelFiles


\* ------------------------------------------------------------------------
\* SDCard::scanForImages on the entries readdir yields.  Names and paths
\* are sequences of characters.
\* ------------------------------------------------------------------------
IMAGE_DIRECTORY ==
    <<"/", "s", "d", "c", "a", "r", "d", "/", "i", "m", "a", "g", "e", "s">>
IMAGE_EXTENSIONS == << <<".", "b", "m", "p">>, <<".", "B", "M", "P">> >>

DT_REG == "DT_REG"
DT_DIR == "DT_DIR"

\* filename.substr(filename.length() - strlen(ext)) == ext
HasExtension(filename, ext) ==
    /\ Len(filename) >= Len(ext)
    /\ SubSeq(filename, Len(filename) - Len(ext) + 1, Len(filename)) = ext

isImage(filename) ==
    \E i \in 1..Len(IMAGE_EXTENSIONS) :
        HasExtension(filename, IMAGE_EXTENSIONS[i])

\* the readdir loop: the entries still to come and the list so far
RECURSIVE ReadDir(_, _, _)
ReadDir(directory, entries, imageFiles) ==
    IF entries = <<>> \/ Len(imageFiles) >= MAX_IMAGE_FILES THEN imageFiles
    ELSE IF Head(entries).d_name[1] = "."
    THEN ReadDir(directory, Tail(entries), imageFiles)
    ELSE IF isImage(Head(entries).d_name)
    THEN ReadDir(directory, Tail(entries),
             Append(imageFiles, directory \o <<"/">> \o Head(entries).d_name))
    ELSE ReadDir(directory, Tail(entries), imageFiles)

\* mounted: s_mounted; opens: opendir succeeds
scanForImages(mounted, opens, directory, entries) ==
    IF ~mounted THEN <<>>
    ELSE IF ~opens THEN <<>>
    ELSE ReadDir(directory, entries, <<>>)

\* ------------------------------------------------------------------------
\* The inputs of the calls
\* ------------------------------------------------------------------------
\* colour levels: a grid over 0..255 and the values around the thresholds
ColorLevels ==
    {v \in 0..UINT8_MAX : v % ColorStep = 0}
        \cup {84, 85, 86, 100, 101, 127, 128, 129, UINT8_MAX}

QuantCalls ==
    [fn : {"rgbToEinkColor"}, r : ColorLevels, g : ColorLevels,
     b : ColorLevels]

\* widths: small ones, and the largest an int32_t header field holds with
\* the widths around a third of 2^32
Widths ==
    (1..MaxWidth)
        \cup {(INT32_MAX \div 3) * 2, (INT32_MAX \div 3) * 2 + 1, INT32_MAX}

StrideCalls == [fn : {"rowSize"}, bitsPerPixel : Depths, imgWidth : Widths]

\* image sides: the small ones, which are enlarged, and sides around and
\* above the panel's, which are reduced
Sides ==
    (1..MaxDim)
        \cup {DISPLAY_WIDTH - 1, DISPLAY_WIDTH, DISPLAY_WIDTH + 1,
              DISPLAY_HEIGHT - 1, DISPLAY_HEIGHT, DISPLAY_HEIGHT + 1,
              2 * DISPLAY_HEIGHT + 1, 1000, 4096, 32767}

FitCalls == [fn : {"FitToDisplay"}, imgWidth : Sides, imgHeight : Sides]

Entry(name, type) == [d_name |-> name, d_type |-> type]

\* regular files with and without a recognised extension, hidden entries,
\* the dot entry and subdirectories
EntrySamples ==
    {Entry(<<"a", ".", "b", "m", "p">>, DT_REG),
     Entry(<<"b", ".", "B", "M", "P">>, DT_REG),
     Entry(<<"c", ".", "B", "m", "p">>, DT_REG),
     Entry(<<"b", "m", "p">>, DT_REG),
     Entry(<<"r", "e", "a", "d", "m", "e", ".", "t", "x", "t">>, DT_REG),
     Entry(<<".", "h", "i", "d", "d", "e", "n">>, DT_REG),
     Entry(<<".", "x", ".", "b", "m", "p">>, DT_REG),
     Entry(<<".">>, DT_DIR),
     Entry(<<"s", "u", "b", "d", "i", "r">>, DT_DIR),
     Entry(<<"p", "i", "c", "s", ".", "b", "m", "p">>, DT_DIR)}

\* directories: up to MaxEntries different entries in any order
Listings ==
    {l \in UNION {[1..n -> EntrySamples] : n \in 0..MaxEntries} :
        \A i, j \in DOMAIN l : i # j => l[i] # l[j]}

ScanCalls ==
    [fn : {"scanForImages"}, mounted : BOOLEAN, opens : BOOLEAN,
     directory : {IMAGE_DIRECTORY}, entries : Listings]

\* image lists with every pattern of loading and failing files, entered at
\* every index a list of that size has and at the first index beyond it
DisplayCalls ==
    {c \in [fn : {"displayCurrentImage"}, files : ImageLists,
            index : 0..MaxImages] : c.index <= Len(c.files)}

Calls ==
    QuantCalls \cup StrideCalls \cup FitCalls \cup ScanCalls
        \cup DisplayCalls


\* ------------------------------------------------------------------------
\* Slideshow::init
\* ------------------------------------------------------------------------
\* queue, buttons (interrupt handlers installed), display, then the
\* "Initializing..." screen; a failed xQueueCreate returns false at once
InitBegin(queueOk) ==
    /\ pc = "boot"
    /\ IF queueOk
         THEN /\ isrInstalled' = TRUE
              /\ fb' = drawLoadingScreen("Initializing...")
              /\ pc' = "init_loading_commit"
         ELSE /\ pc' = "init_failed"
              /\ UNCHANGED <<isrInstalled, fb>>
    /\ UNCHANGED <<s_state, s_imageFiles, s_currentImageIndex, s_autoAdvance,
                   activityAge, advanceAge, s_buttonQueue, s_mounted, panel,
                   ext1, lines, budget, arrivals, consumed, dropped, wakes,
                   sleptWith, recording, handled, advances, file, loaded,
                   call, result>>

\* "Initializing..." is on the panel; SDCard::init() mounts the card or not
InitMount(d, mountOk) ==
    /\ pc = "init_loading_commit"
    /\ Commit(d)
    /\ IF mountOk
         THEN /\ s_mounted' = TRUE
              /\ fb' = drawLoadingScreen("Scanning images...")
              /\ pc' = "init_scanning_commit"
         ELSE /\ s_mounted' = FALSE
              /\ fb' = drawErrorScreen("SD card error")
              /\ pc' = "init_error_commit"
    /\ UNCHANGED <<s_state, s_imageFiles, s_currentImageIndex, s_autoAdvance,
                   s_buttonQueue, isrInstalled, ext1, lines, budget,
                   arrivals, consumed, dropped, wakes, sleptWith, recording,
                   handled, advances, file, loaded, call, result>>

\* the error screen is on the panel: s_state = ERROR, init returns false
InitError(d) ==
    /\ pc = "init_error_commit"
    /\ Commit(d)
    /\ s_state' = ERROR
    /\ pc' = "init_failed"
    /\ UNCHANGED <<s_imageFiles, s_currentImageIndex, s_autoAdvance,
                   s_buttonQueue, s_mounted, isrInstalled, fb, ext1, lines,
                   budget, arrivals, consumed, dropped, wakes, sleptWith,
                   recording, handled, advances, file, loaded, call, result>>

\* "Scanning images..." is on the panel: s_state = SCANNING
InitScanning(d) ==
    /\ pc = "init_scanning_commit"
    /\ Commit(d)
    /\ s_state' = SCANNING
    /\ pc' = "init_scan"
    /\ UNCHANGED <<s_imageFiles, s_currentImageIndex, s_autoAdvance,
                   s_buttonQueue, s_mounted, isrInstalled, fb, ext1, lines,
                   budget, arrivals, consumed, dropped, wakes, sleptWith,
                   recording, handled, advances, file, loaded, call, result>>

\* SDCard::scanForImages fills the list.  Empty: the error screen.  Otherwise
\* index 0, DISPLAYING and both stamps taken
InitScan(files) ==
    /\ pc = "init_scan"
    /\ s_imageFiles' = files
    /\ IF ScanEmpty(Len(files))
         THEN /\ fb' = drawErrorScreen("No images found")
              /\ pc' = "init_error_commit"
              /\ UNCHANGED <<s_state, s_currentImageIndex, activityAge,
                             advanceAge>>
         ELSE /\ s_currentImageIndex' = 0
              /\ s_state' = DISPLAYING
              /\ activityAge' = 0
              /\ advanceAge' = 0
              /\ pc' = "init_display"
              /\ UNCHANGED fb
    /\ UNCHANGED <<s_autoAdvance, s_buttonQueue, s_mounted, isrInstalled,
                   panel, ext1, lines, budget, arrivals, consumed, dropped,
                   wakes, sleptWith, recording, handled, advances, file,
                   loaded, call, result>>

\* the first displayCurrentImage of init
InitDisplay ==
    /\ pc = "init_display"
    /\ LET r == displayCurrentImage(s_imageFiles, s_currentImageIndex) IN
       /\ s_currentImageIndex' = r.index
       /\ fb' = ShownFrame(r)
       /\ pc' = IF r.loaded THEN "init_image_commit" ELSE "main_start"
    /\ UNCHANGED <<s_state, s_imageFiles, s_autoAdvance, activityAge,
                   advanceAge, s_buttonQueue, s_mounted, isrInstalled, panel,
                   ext1, lines, budget, arrivals, consumed, dropped, wakes,
                   sleptWith, recording, handled, advances, file, loaded,
                   call, result>>

\* the first image is on the panel; init returns true
InitImageShown(d) ==
    /\ pc = "init_image_commit"
    /\ Commit(d)
    /\ pc' = "main_start"
    /\ UNCHANGED <<s_state, s_imageFiles, s_currentImageIndex, s_autoAdvance,
                   s_buttonQueue, s_mounted, isrInstalled, fb, ext1, lines,
                   budget, arrivals, consumed, dropped, wakes, sleptWith,
                   recording, handled, advances, file, loaded, call, result>>

\* ------------------------------------------------------------------------
\* app_main
\* ------------------------------------------------------------------------
\* init returned true: configure the wake source, create the task
MainStart ==
    /\ pc = "main_start"
    /\ ext1' = configure_wakeup
    /\ pc' = "recv"
    /\ UNCHANGED <<s_state, s_imageFiles, s_currentImageIndex, s_autoAdvance,
                   activityAge, advanceAge, s_buttonQueue, s_mounted,
                   isrInstalled, fb, panel, lines, budget, arrivals,
                   consumed, dropped, wakes, sleptWith, recording, handled,
                   advances, file, loaded, call, result>>

\* init returned false: vTaskDelay(5000 ms), esp_restart()
MainRestart ==
    /\ pc = "init_failed"
    /\ ColdStart
    /\ UNCHANGED <<panel, lines, budget, wakes, sleptWith, recording, file,
                   loaded, call, result>>

\* ------------------------------------------------------------------------
\* Button lines and the interrupt handler
\* ------------------------------------------------------------------------
\* falling edge on a running device: gpio_isr_handler queues a press event
\* (the line is released again before the device sleeps)
gpio_isr_handler(id) ==
    /\ isrInstalled
    /\ pc # "asleep"
    /\ budget > 0
    /\ budget' = budget - 1
    /\ arrivals' = arrivals + 1
    /\ s_buttonQueue' = xQueueSendFromISR(s_buttonQueue,
                                        Event(id, arrivals + 1))
    /\ dropped' = IF Len(s_buttonQueue) < QUEUE_LENGTH
                    THEN dropped ELSE dropped \cup {arrivals + 1}
    /\ UNCHANGED <<pc, s_state, s_imageFiles, s_currentImageIndex,
                   s_autoAdvance, activityAge, advanceAge, s_mounted,
                   isrInstalled, fb, panel, ext1, lines, consumed, wakes,
                   sleptWith, recording, handled, advances, file, loaded,
                   call, result>>

\* a line goes low while the chip is in deep sleep: no handler runs
PressAsleep(id) ==
    /\ pc = "asleep"
    /\ id \notin lines
    /\ lines' = lines \cup {id}
    /\ UNCHANGED <<pc, s_state, s_imageFiles, s_currentImageIndex,
                   s_autoAdvance, activityAge, advanceAge, s_buttonQueue,
                   s_mounted, isrInstalled, fb, panel, ext1, budget,
                   arrivals, consumed, dropped, wakes, sleptWith, recording,
                   handled, advances, file, loaded, call, result>>

\* a line returns high while the chip sleeps
Release(id) ==
    /\ pc = "asleep"
    /\ id \in lines
    /\ lines' = lines \ {id}
    /\ UNCHANGED <<pc, s_state, s_imageFiles, s_currentImageIndex,
                   s_autoAdvance, activityAge, advanceAge, s_buttonQueue,
                   s_mounted, isrInstalled, fb, panel, ext1, budget,
                   arrivals, consumed, dropped, wakes, sleptWith, recording,
                   handled, advances, file, loaded, call, result>>

\* ------------------------------------------------------------------------
\* Slideshow::task, after the queue receive: the auto-advance block and the
\* inactivity check.  No call between them blocks, so they are applied to the
\* values the receive part leaves: index, framebuffer and the two ages.
\* ------------------------------------------------------------------------
\* faulty variant of AutoAdvanceDue: fires one tick late
AutoAdvanceLate(adv) ==
    /\ s_state = DISPLAYING
    /\ s_autoAdvance
    /\ adv > T_ADVANCE

\* the condition of the auto-advance block
AutoAdvanceDue(adv) ==
    /\ s_state = DISPLAYING
    /\ s_autoAdvance
    /\ adv >= T_ADVANCE

\* faulty variant of InactivityDue: two poll windows late
InactivityLate(act) == act >= T_INACTIVE + 2 * T_POLL

\* faulty variant of InactivityDue: one poll window early
InactivityEarly(act) == act >= T_INACTIVE - T_POLL

\* the condition of the inactivity block
InactivityDue(act) == act >= T_INACTIVE

\* the inactivity check: draw "Sleeping..." (the commit blocks) or loop
InactivityBlock(index, frame, act, adv) ==
    /\ s_currentImageIndex' = index
    /\ activityAge' = act
    /\ advanceAge' = adv
    /\ IF InactivityDue(act)
         THEN /\ fb' = TextFrame("Sleeping...")
              /\ pc' = "sleep_commit"
         ELSE /\ fb' = frame
              /\ pc' = "recv"

\* the auto-advance block: when due, step the index and displayCurrentImage;
\* a successful load blocks in the commit, a failed one stamps at once
LoopTail(index, frame, act, adv) ==
    IF AutoAdvanceDue(adv)
      THEN LET r == displayCurrentImage(s_imageFiles,
                      NextIndex(index, Len(s_imageFiles))) IN
           IF r.loaded
             THEN /\ s_currentImageIndex' = r.index
                  /\ fb' = ImageFrame(r.index)
                  /\ activityAge' = act
                  /\ advanceAge' = adv
                  /\ pc' = "auto_commit"
                  /\ advances' = IF recording THEN advances + 1 ELSE advances
             ELSE /\ InactivityBlock(r.index, frame, act, 0)
                  /\ advances' = IF recording THEN advances + 1 ELSE advances
      ELSE /\ InactivityBlock(index, frame, act, adv)
           /\ UNCHANGED advances

\* ------------------------------------------------------------------------
\* handleButton
\* ------------------------------------------------------------------------
\* UP and DOWN: move the index, displayCurrentImage; the stamp of the last
\* advance is taken when displayCurrentImage has returned
HandleNav(target) ==
    LET r == displayCurrentImage(s_imageFiles, target) IN
    IF r.loaded
      THEN /\ s_currentImageIndex' = r.index
           /\ fb' = ImageFrame(r.index)
           /\ activityAge' = 0
           /\ pc' = "nav_commit"
           /\ UNCHANGED <<advanceAge, advances>>
      ELSE LoopTail(r.index, fb, 0, 0)

\* faulty variant of HandleSelect: the flag is shown toggled, not stored
HandleSelectNoToggle ==
    /\ UNCHANGED s_autoAdvance
    /\ activityAge' = 0
    /\ advanceAge' = 0
    /\ fb' = [fb EXCEPT !.overlay = IF ~s_autoAdvance THEN "AUTO" ELSE "MANUAL"]
    /\ pc' = "select_commit"
    /\ UNCHANGED <<s_currentImageIndex, advances>>

\* SELECT: toggle, stamp, draw the indicator over the frame
HandleSelect ==
    /\ s_autoAdvance' = ~s_autoAdvance
    /\ activityAge' = 0
    /\ advanceAge' = 0
    /\ fb' = [fb EXCEPT !.overlay = IF ~s_autoAdvance THEN "AUTO" ELSE "MANUAL"]
    /\ pc' = "select_commit"
    /\ UNCHANGED <<s_currentImageIndex, advances>>

\* the event is handled with the activity stamp just taken
handleButton(evt) ==
    IF s_state # DISPLAYING
      THEN /\ LoopTail(s_currentImageIndex, fb, 0, advanceAge)
           /\ UNCHANGED s_autoAdvance
      ELSE CASE evt.id = UP ->
                  /\ IF Len(s_imageFiles) > 0
                       THEN HandleNav(PrevIndex(s_currentImageIndex,
                                                Len(s_imageFiles)))
                       ELSE LoopTail(s_currentImageIndex, fb, 0, advanceAge)
                  /\ UNCHANGED s_autoAdvance
             [] evt.id = DOWN ->
                  /\ IF Len(s_imageFiles) > 0
                       THEN HandleNav(NextIndex(s_currentImageIndex,
                                                Len(s_imageFiles)))
                       ELSE LoopTail(s_currentImageIndex, fb, 0, advanceAge)
                  /\ UNCHANGED s_autoAdvance
             [] evt.id = SELECT -> HandleSelect

\* ------------------------------------------------------------------------
\* Slideshow::task
\* ------------------------------------------------------------------------
\* xQueueReceive found nothing within the poll window
RecvTimeout ==
    /\ pc = "recv"
    /\ s_buttonQueue = <<>>
    /\ LoopTail(s_currentImageIndex, fb, activityAge + T_POLL,
                advanceAge + T_POLL)
    /\ UNCHANGED <<s_state, s_imageFiles, s_autoAdvance, s_buttonQueue,
                   s_mounted, isrInstalled, panel, ext1, lines, budget,
                   arrivals, consumed, dropped, wakes, sleptWith, recording,
                   handled, file, loaded, call, result>>

\* xQueueReceive returned an event: a press stamps the activity and is handled
RecvEvent ==
    /\ pc = "recv"
    /\ s_buttonQueue # <<>>
    /\ LET evt == Head(s_buttonQueue) IN
       /\ s_buttonQueue' = Tail(s_buttonQueue)
       /\ consumed' = Append(consumed, evt.n)
       /\ handled' = IF recording THEN Append(handled, evt.id) ELSE handled
       /\ IF evt.pressed
            THEN handleButton(evt)
            ELSE /\ LoopTail(s_currentImageIndex, fb, activityAge, advanceAge)
                 /\ UNCHANGED s_autoAdvance
    /\ UNCHANGED <<s_state, s_imageFiles, s_mounted, isrInstalled, panel,
                   ext1, lines, budget, arrivals, dropped, wakes, sleptWith,
                   recording, file, loaded, call, result>>

\* UP/DOWN: the image is on the panel; the advance stamp is taken afresh
NavShown(d) ==
    /\ pc = "nav_commit"
    /\ panel' = fb
    /\ LoopTail(s_currentImageIndex, fb, activityAge + d, 0)
    /\ UNCHANGED <<s_state, s_imageFiles, s_autoAdvance, s_buttonQueue,
                   s_mounted, isrInstalled, ext1, lines, budget, arrivals,
                   consumed, dropped, wakes, sleptWith, recording, handled,
                   file, loaded, call, result>>

\* SELECT: the indicator is on the panel; vTaskDelay(1000 ms) follows
SelectIndicatorShown(d) ==
    /\ pc = "select_commit"
    /\ Commit(d)
    /\ pc' = "select_delay"
    /\ UNCHANGED <<s_state, s_imageFiles, s_currentImageIndex, s_autoAdvance,
                   s_buttonQueue, s_mounted, isrInstalled, fb, ext1, lines,
                   budget, arrivals, consumed, dropped, wakes, sleptWith,
                   recording, handled, advances, file, loaded, call, result>>

\* SELECT: the delay is over; displayCurrentImage
SelectRestore ==
    /\ pc = "select_delay"
    /\ LET r == displayCurrentImage(s_imageFiles, s_currentImageIndex) IN
       IF r.loaded
         THEN /\ s_currentImageIndex' = r.index
              /\ fb' = ImageFrame(r.index)
              /\ Elapse(T_INDICATOR)
              /\ pc' = "select_image_commit"
              /\ UNCHANGED advances
         ELSE LoopTail(r.index, fb, activityAge + T_INDICATOR,
                       advanceAge + T_INDICATOR)
    /\ UNCHANGED <<s_state, s_imageFiles, s_autoAdvance, s_buttonQueue,
                   s_mounted, isrInstalled, panel, ext1, lines, budget,
                   arrivals, consumed, dropped, wakes, sleptWith, recording,
                   handled, file, loaded, call, result>>

\* SELECT: the image is back on the panel
SelectImageShown(d) ==
    /\ pc = "select_image_commit"
    /\ panel' = fb
    /\ LoopTail(s_currentImageIndex, fb, activityAge + d, advanceAge + d)
    /\ UNCHANGED <<s_state, s_imageFiles, s_autoAdvance, s_buttonQueue,
                   s_mounted, isrInstalled, ext1, lines, budget, arrivals,
                   consumed, dropped, wakes, sleptWith, recording, handled,
                   file, loaded, call, result>>

\* faulty variant of AutoShown: the render of an auto-advance counts as activity
AutoShownAsActivity(d) ==
    /\ pc = "auto_commit"
    /\ panel' = fb
    /\ InactivityBlock(s_currentImageIndex, fb, d, d)
    /\ UNCHANGED <<s_state, s_imageFiles, s_autoAdvance, s_buttonQueue,
                   s_mounted, isrInstalled, ext1, lines, budget, arrivals,
                   consumed, dropped, wakes, sleptWith, recording, handled,
                   advances, file, loaded, call, result>>

\* auto-advance: the image is on the panel; s_lastAutoAdvanceTick = now, the
\* tick count read before the image was drawn, d ticks ago
AutoShown(d) ==
    /\ pc = "auto_commit"
    /\ panel' = fb
    /\ InactivityBlock(s_currentImageIndex, fb, activityAge + d, d)
    /\ UNCHANGED <<s_state, s_imageFiles, s_autoAdvance, s_buttonQueue,
                   s_mounted, isrInstalled, ext1, lines, budget, arrivals,
                   consumed, dropped, wakes, sleptWith, recording, handled,
                   advances, file, loaded, call, result>>

\* "Sleeping..." is on the panel; configure_wakeup(); vTaskDelay(100 ms) follows
SleepShown(d) ==
    /\ pc = "sleep_commit"
    /\ Commit(d)
    /\ ext1' = configure_wakeup
    /\ pc' = "sleep_delay"
    /\ UNCHANGED <<s_state, s_imageFiles, s_currentImageIndex, s_autoAdvance,
                   s_buttonQueue, s_mounted, isrInstalled, fb, lines, budget,
                   arrivals, consumed, dropped, wakes, sleptWith, recording,
                   handled, advances, file, loaded, call, result>>

\* esp_deep_sleep_start()
DeepSleep ==
    /\ pc = "sleep_delay"
    /\ Elapse(T_SLEEP_DELAY)
    /\ pc' = "asleep"
    /\ sleptWith' = [index |-> s_currentImageIndex, auto |-> s_autoAdvance,
                     slept |-> TRUE]
    /\ UNCHANGED <<s_state, s_imageFiles, s_currentImageIndex, s_autoAdvance,
                   s_buttonQueue, s_mounted, isrInstalled, fb, panel, ext1,
                   lines, budget, arrivals, consumed, dropped, wakes,
                   recording, handled, advances, file, loaded, call, result>>

\* the EXT1 wake source fires: the chip resets and app_main runs again
\* (the lines are released before the next sleep)
Wake ==
    /\ pc = "asleep"
    /\ Ext1Fires(ext1, lines)
    /\ wakes < MaxWakes
    /\ ColdStart
    /\ lines' = {}
    /\ wakes' = wakes + 1
    /\ UNCHANGED <<panel, budget, sleptWith, recording, file, loaded, call,
                   result>>

\* one call of loadAndDisplayBMP on the file: a load that gets as far as
\* clearBuffer leaves a new frame, and its display() puts it on the panel
LoadBMP(oob) ==
    /\ pc = "load"
    /\ ~loaded.done
    /\ loaded' = loadAndDisplayBMP(file, oob)
    /\ fb' = IF ~loaded'.cleared THEN fb
             ELSE IF loaded'.drawn THEN ImageFrame(0) ELSE BlankFrame
    /\ panel' = IF loaded'.committed THEN fb' ELSE panel
    /\ pc' = "load_done"
    /\ UNCHANGED <<s_state, s_imageFiles, s_currentImageIndex, s_autoAdvance,
                   activityAge, advanceAge, s_buttonQueue, s_mounted,
                   isrInstalled, ext1, lines, budget, arrivals, consumed,
                   dropped, wakes, sleptWith, recording, handled, advances,
                   file, call, result>>

\* one call of rgbToEinkColor
CallQuantizer ==
    /\ pc = "call"
    /\ call.fn = "rgbToEinkColor"
    /\ result' = [fn |-> call.fn,
                  value |-> rgbToEinkColor(call.r, call.g, call.b)]
    /\ pc' = "return"
    /\ UNCHANGED <<s_state, s_imageFiles, s_currentImageIndex, s_autoAdvance,
                   activityAge, advanceAge, s_buttonQueue, s_mounted,
                   isrInstalled, fb, panel, ext1, lines, budget, arrivals,
                   consumed, dropped, wakes, sleptWith, recording, handled,
                   advances, file, loaded, call>>

\* the row size of one drawing branch for one width
CallRowSize ==
    /\ pc = "call"
    /\ call.fn = "rowSize"
    /\ result' = [fn |-> call.fn,
                  value |-> rowSize(call.bitsPerPixel, ToWide(call.imgWidth))]
    /\ pc' = "return"
    /\ UNCHANGED <<s_state, s_imageFiles, s_currentImageIndex, s_autoAdvance,
                   activityAge, advanceAge, s_buttonQueue, s_mounted,
                   isrInstalled, fb, panel, ext1, lines, budget, arrivals,
                   consumed, dropped, wakes, sleptWith, recording, handled,
                   advances, file, loaded, call>>

\* the scaling block of the loader for one image size
CallFitToDisplay ==
    /\ pc = "call"
    /\ call.fn = "FitToDisplay"
    /\ result' = [fn |-> call.fn,
                  value |-> FitToDisplay(call.imgWidth, call.imgHeight)]
    /\ pc' = "return"
    /\ UNCHANGED <<s_state, s_imageFiles, s_currentImageIndex, s_autoAdvance,
                   activityAge, advanceAge, s_buttonQueue, s_mounted,
                   isrInstalled, fb, panel, ext1, lines, budget, arrivals,
                   consumed, dropped, wakes, sleptWith, recording, handled,
                   advances, file, loaded, call>>

\* one call of SDCard::scanForImages
CallScanForImages ==
    /\ pc = "call"
    /\ call.fn = "scanForImages"
    /\ result' = [fn |-> call.fn,
                  value |-> scanForImages(call.mounted, call.opens,
                                          call.directory, call.entries)]
    /\ pc' = "return"
    /\ UNCHANGED <<s_state, s_imageFiles, s_currentImageIndex, s_autoAdvance,
                   activityAge, advanceAge, s_buttonQueue, s_mounted,
                   isrInstalled, fb, panel, ext1, lines, budget, arrivals,
                   consumed, dropped, wakes, sleptWith, recording, handled,
                   advances, file, loaded, call>>

\* one call of Slideshow::displayCurrentImage on a list and an index
CallDisplayCurrentImage ==
    /\ pc = "call"
    /\ call.fn = "displayCurrentImage"
    /\ result' = [fn |-> call.fn,
                  value |-> displayCurrentImage(call.files, call.index)]
    /\ pc' = "return"
    /\ UNCHANGED <<s_state, s_imageFiles, s_currentImageIndex, s_autoAdvance,
                   activityAge, advanceAge, s_buttonQueue, s_mounted,
                   isrInstalled, fb, panel, ext1, lines, budget, arrivals,
                   consumed, dropped, wakes, sleptWith, recording, handled,
                   advances, file, loaded, call>>

\* ------------------------------------------------------------------------
\* Specifications
\* ------------------------------------------------------------------------
\* the whole firmware from power-on: init, the task loop, sleep, wake, restart
Next ==
    \/ \E queueOk \in BOOLEAN : InitBegin(queueOk)
    \/ \E d \in CommitTicks, mountOk \in BOOLEAN : InitMount(d, mountOk)
    \/ \E d \in CommitTicks : InitError(d)
    \/ \E d \in CommitTicks : InitScanning(d)
    \/ \E files \in ImageLists : InitScan(files)
    \/ InitDisplay
    \/ \E d \in CommitTicks : InitImageShown(d)
    \/ MainStart
    \/ MainRestart
    \/ \E id \in SlideshowButtonId : gpio_isr_handler(id)
    \/ \E id \in SlideshowButtonId : PressAsleep(id)
    \/ \E id \in SlideshowButtonId : Release(id)
    \/ RecvTimeout
    \/ RecvEvent
    \/ \E d \in CommitTicks : NavShown(d)
    \/ \E d \in CommitTicks : SelectIndicatorShown(d)
    \/ SelectRestore
    \/ \E d \in CommitTicks : SelectImageShown(d)
    \/ \E d \in CommitTicks : AutoShown(d)
    \/ \E d \in CommitTicks : SleepShown(d)
    \/ DeepSleep
    \/ Wake

Spec == Init /\ [][Next]_vars

\* The controller as init leaves it when the task is created: DISPLAYING,
\* the list scanned, the first displayCurrentImage done, both stamps fresh,
\* the wake source configured.  The histories are recorded.
TaskStarted(files, auto, presses) ==
    LET r == displayCurrentImage(files, 0) IN
    /\ pc = "recv"
    /\ s_state = DISPLAYING
    /\ s_imageFiles = files
    /\ s_currentImageIndex = r.index
    /\ s_autoAdvance = auto
    /\ activityAge = 0
    /\ advanceAge = 0
    /\ s_buttonQueue = <<>>
    /\ s_mounted = TRUE
    /\ isrInstalled = TRUE
    /\ fb = IF r.loaded THEN ImageFrame(r.index)
                        ELSE drawLoadingScreen("Scanning images...")
    /\ panel = fb
    /\ ext1 = configure_wakeup
    /\ lines = {}
    /\ budget = presses
    /\ arrivals = 0
    /\ consumed = <<>>
    /\ dropped = {}
    /\ wakes = 0
    /\ sleptWith = NoSleep
    /\ recording = TRUE
    /\ handled = <<>>
    /\ advances = 0
    /\ file = NoFile
    /\ loaded = NotLoaded
    /\ call = NoCall
    /\ result = NoResult

\* the task loop under UP and DOWN presses, auto-advance off
InitNav ==
    \E files \in ImageLists \ {<<>>} : TaskStarted(files, FALSE, NavPresses)

NextNav ==
    \/ \E id \in {UP, DOWN} : gpio_isr_handler(id)
    \/ RecvTimeout
    \/ RecvEvent
    \/ \E d \in CommitTicks : NavShown(d)
    \/ \E d \in CommitTicks : SleepShown(d)
    \/ DeepSleep

SpecNav == InitNav /\ [][NextNav]_vars

\* the task loop with auto-advance on, index 0 and no button events; the
\* image at index 0 is the one on the panel
ScenarioCommitTicks == 0..ScenarioCommit

InitAuto ==
    \E files \in {l \in ImageLists : Len(l) > 0 /\ l[1]} :
        TaskStarted(files, TRUE, 0)

NextAuto ==
    \/ RecvTimeout
    \/ \E d \in ScenarioCommitTicks : AutoShown(d)
    \/ \E d \in CommitTicks : SleepShown(d)
    \/ DeepSleep

SpecAuto == InitAuto /\ [][NextAuto]_vars

\* the loader run once on each file
InitLoad ==
    /\ pc = "load"
    /\ s_state = DISPLAYING
    /\ s_imageFiles = <<TRUE>>
    /\ s_currentImageIndex = 0
    /\ s_autoAdvance = FALSE
    /\ activityAge = 0
    /\ advanceAge = 0
    /\ s_buttonQueue = <<>>
    /\ s_mounted = TRUE
    /\ isrInstalled = TRUE
    /\ fb = drawLoadingScreen("Scanning images...")
    /\ panel = fb
    /\ ext1 = NoWake
    /\ lines = {}
    /\ budget = 0
    /\ arrivals = 0
    /\ consumed = <<>>
    /\ dropped = {}
    /\ wakes = 0
    /\ sleptWith = NoSleep
    /\ recording = FALSE
    /\ handled = <<>>
    /\ advances = 0
    /\ file \in LoaderFiles
    /\ loaded = NotLoaded
    /\ call = NoCall
    /\ result = NoResult

NextLoad == \E oob \in OobOutcomes : LoadBMP(oob)

SpecLoad == InitLoad /\ [][NextLoad]_vars

\* every function called once on each of its inputs
InitCalls ==
    /\ pc = "call"
    /\ s_state = INIT
    /\ s_imageFiles = <<>>
    /\ s_currentImageIndex = 0
    /\ s_autoAdvance = FALSE
    /\ activityAge = 0
    /\ advanceAge = 0
    /\ s_buttonQueue = <<>>
    /\ s_mounted = FALSE
    /\ isrInstalled = FALSE
    /\ fb = BlankFrame
    /\ panel = BlankFrame
    /\ ext1 = NoWake
    /\ lines = {}
    /\ budget = 0
    /\ arrivals = 0
    /\ consumed = <<>>
    /\ dropped = {}
    /\ wakes = 0
    /\ sleptWith = NoSleep
    /\ recording = FALSE
    /\ handled = <<>>
    /\ advances = 0
    /\ file = NoFile
    /\ loaded = NotLoaded
    /\ call \in Calls
    /\ result = NoResult

NextCalls ==
    \/ CallQuantizer
    \/ CallRowSize
    \/ CallFitToDisplay
    \/ CallScanForImages
    \/ CallDisplayCurrentImage

SpecCalls == InitCalls /\ [][NextCalls]_vars

TypeOK ==
    /\ s_state \in State
    /\ s_currentImageIndex \in Nat
    /\ s_autoAdvance \in BOOLEAN
    /\ activityAge \in Nat
    /\ advanceAge \in Nat
    /\ Len(s_buttonQueue) <= QUEUE_LENGTH
    /\ lines \subseteq SlideshowButtonId
    /\ budget \in Nat
    /\ advances \in Nat
    /\ Len(handled) <= Len(consumed)

\* ------------------------------------------------------------------------
\* Shorthands of the properties
\* ------------------------------------------------------------------------
ImageCount == Len(s_imageFiles)

\* every image of the list loads
AllLoad == \A i \in 1..ImageCount : s_imageFiles[i]

\* the task exists: the control flow is somewhere in Slideshow::task
TaskPositions ==
    {"recv", "nav_commit", "select_commit", "select_delay",
     "select_image_commit", "auto_commit", "sleep_commit", "sleep_delay"}

\* the image at position i of the list loads
Loads(i) == s_imageFiles[i + 1]

\* where the navigation arithmetic puts the index
UpTarget == (s_currentImageIndex + ImageCount - 1) % ImageCount
DownTarget == (s_currentImageIndex + 1) % ImageCount

\* this step handles a press of the button id
Handles(id) == handled' = Append(handled, id)

\* ------------------------------------------------------------------------
\* Properties
\* ------------------------------------------------------------------------

\* C1: whenever the controller is DISPLAYING, after any presses, auto-advance
\* firings and failed renders that skip, the index is a valid position of a
\* non-empty list: 0 <= index < N.
C1_IndexInRange ==
    s_state = DISPLAYING =>
        /\ ImageCount >= 1
        /\ 0 <= s_currentImageIndex
        /\ s_currentImageIndex < ImageCount

\* C1 case: with a bad image in a list of three, two presses handled and an
\* auto-advance under way, the index is on the last image
C1_Witness ==
    /\ s_state = DISPLAYING
    /\ ImageCount = 3
    /\ ~AllLoad
    /\ Len(consumed) = 2
    /\ pc = "auto_commit"
    /\ s_currentImageIndex = ImageCount - 1

\* C2 as stated: handling one UP leaves (old + N - 1) mod N, handling one
\* DOWN leaves (old + 1) mod N, and DOWN, DOWN, UP from index 0 with N = 3
\* ends on index 1, whatever the files are.
C2_AsStated ==
    [][/\ Handles(UP) => s_currentImageIndex' = UpTarget
       /\ Handles(DOWN) => s_currentImageIndex' = DownTarget
       /\ (handled' = <<DOWN, DOWN, UP>> /\ handled # handled'
              /\ ImageCount = 3) =>
            s_currentImageIndex' = 1]_vars

\* C2: when the image at the target index loads, handling one UP leaves
\* index = (old + N - 1) mod N and handling one DOWN leaves (old + 1) mod N;
\* with three loadable images DOWN, DOWN, UP from index 0 ends on index 1.
C2_NavigationWhenTargetLoads ==
    [][/\ (Handles(UP) /\ Loads(UpTarget)) =>
            s_currentImageIndex' = UpTarget
       /\ (Handles(DOWN) /\ Loads(DownTarget)) =>
            s_currentImageIndex' = DownTarget
       /\ (handled' = <<DOWN, DOWN, UP>> /\ handled # handled'
              /\ ImageCount = 3 /\ AllLoad) =>
            s_currentImageIndex' = 1]_vars

\* C2 case: three loadable images, DOWN, DOWN, UP handled, index 1 on the panel
C2_Witness ==
    /\ ImageCount = 3
    /\ AllLoad
    /\ handled = <<DOWN, DOWN, UP>>
    /\ pc = "recv"
    /\ s_currentImageIndex = 1
    /\ panel = ImageFrame(1)

\* the timed scenario: 2.5 auto-advance periods without a button event
ScenarioWindow == (5 * T_ADVANCE) \div 2

\* the cadence of the auto-advance block, auto-advance on and no presses:
\* a firing happens only when the period has elapsed, and no poll is left
\* with an elapsed period unfired
CadenceKept ==
    /\ pc = "auto_commit" => advanceAge >= T_ADVANCE
    /\ pc = "recv" => advanceAge < T_ADVANCE

\* C3 as stated: the cadence, each firing moves the index by +1 mod N
\* (from index 0: index = firings mod N), and with N = 3 there are exactly
\* two firings in 2.5 periods (no third before the window ends, two once it
\* has ended) with the index then 2, whatever the files are.
C3_AsStated ==
    /\ CadenceKept
    /\ s_currentImageIndex = advances % ImageCount
    /\ ImageCount = 3 =>
          /\ activityAge <= ScenarioWindow => advances <= 2
          /\ activityAge >= ScenarioWindow => advances >= 2
          /\ advances = 2 => s_currentImageIndex = 2

\* C3: with auto-advance on and no button events the block fires once each
\* time the period has elapsed and never earlier; when every image loads
\* each firing moves the index by +1 mod N, and with N = 3, commits of at
\* most half a period and 2.5 periods without a press there are exactly two
\* firings and the index is 2.
C3_CadenceWhenImagesLoad ==
    /\ CadenceKept
    /\ AllLoad => s_currentImageIndex = advances % ImageCount
    /\ (AllLoad /\ ImageCount = 3) =>
          /\ activityAge <= ScenarioWindow => advances <= 2
          /\ activityAge >= ScenarioWindow => advances >= 2
          /\ advances = 2 => s_currentImageIndex = 2

\* C3 case: three loadable images, the window is over, two firings, index 2
C3_Witness ==
    /\ ImageCount = 3
    /\ AllLoad
    /\ s_autoAdvance
    /\ activityAge >= ScenarioWindow
    /\ advances = 2
    /\ s_currentImageIndex = 2
    /\ panel = ImageFrame(2)

SleepDeadline == T_INACTIVE + T_POLL + 2 * MaxCommit + T_SLEEP_DELAY

RECURSIVE Ascending(_, _)
Ascending(n, skip) ==
    IF n = 0 THEN <<>>
    ELSE IF n \in skip THEN Ascending(n - 1, skip)
    ELSE Append(Ascending(n - 1, skip), n)

\* arrival numbers waiting in the queue
Queued == [i \in 1..Len(s_buttonQueue) |-> s_buttonQueue[i].n]

\* C5 as stated: presses are consumed once and in arrival order, a press is
\* refused only by a queue that holds 10 events, and a press the queue took
\* is not lost: the chip does not go to sleep on queued presses.
C5_AsStated ==
    /\ consumed \o Queued = Ascending(arrivals, dropped)
    /\ dropped # {} => Len(s_buttonQueue) = QUEUE_LENGTH
    /\ pc = "asleep" => s_buttonQueue = <<>>

\* C6: DISPLAYING is reached only with the card mounted and a non-empty
\* list; a failed mount ends in ERROR with "SD card error" on the panel, an
\* empty scan ends in ERROR with "No images found" on the panel, and in
\* ERROR init has returned false, so the task is never created.
C6_FatalStartupErrors ==
    /\ s_state = DISPLAYING => s_mounted /\ ImageCount >= 1
    /\ s_state = ERROR =>
          /\ pc = "init_failed"
          /\ ~s_mounted \/ ImageCount = 0
          /\ panel = IF s_mounted THEN drawErrorScreen("No images found")
                                  ELSE drawErrorScreen("SD card error")
    /\ (pc = "init_failed" /\ isrInstalled) => s_state = ERROR
    /\ pc \in TaskPositions => s_state = DISPLAYING

\* C6 case: the card mounted, the scan found nothing, ERROR with the
\* message on the panel
C6_Witness ==
    /\ s_state = ERROR
    /\ s_mounted
    /\ ImageCount = 0
    /\ panel.text = "No images found"
    /\ pc = "init_failed"

\* C7 as stated: once in ERROR the firmware stays in ERROR with the error
\* message on the panel; it neither restarts nor retries.
C7_AsStated ==
    [][s_state = ERROR =>
          /\ s_state' = ERROR
          /\ pc' = pc
          /\ panel' = panel]_vars

\* C8 as stated: asleep after configure_wakeup, any line low wakes the chip.
C8_AsStated ==
    (pc = "asleep" /\ lines # {}) => Ext1Fires(ext1, lines)

\* C9: every wake from deep sleep restarts the firmware in INIT, and at the
\* step that next enters DISPLAYING the index is 0, auto-advance is off and
\* both stamps are the current tick, whatever was held before sleeping.
C9_ColdRestartOnWake ==
    [][/\ (pc = "asleep" /\ pc' # "asleep") =>
            /\ s_state' = INIT
            /\ pc' = "boot"
            /\ s_imageFiles' = <<>>
            /\ s_buttonQueue' = <<>>
       /\ (s_state # DISPLAYING /\ s_state' = DISPLAYING) =>
            /\ s_currentImageIndex' = 0
            /\ ~s_autoAdvance'
            /\ activityAge' = 0
            /\ advanceAge' = 0]_vars

\* C9 case: the chip slept with auto-advance on and a non-zero index, woke,
\* and has just entered DISPLAYING again
C9_Witness ==
    /\ wakes >= 1
    /\ sleptWith.slept
    /\ sleptWith.auto
    /\ sleptWith.index # 0
    /\ s_state = DISPLAYING
    /\ pc = "init_display"
    /\ s_currentImageIndex = 0
    /\ ~s_autoAdvance

\* C10 as stated: a file with the BM signature and a depth other than 1, 8
\* or 24 is rejected: failure reported, framebuffer not cleared, no commit.
C10_AsStated ==
    (/\ loaded.done
     /\ file.fileSize >= BMP_HEADER_SIZE
     /\ file.bytesRead = file.fileSize
     /\ file.signature = BMP_SIGNATURE
     /\ file.bitsPerPixel \notin {1, 8, 24}) =>
        /\ ~loaded.ok
        /\ ~loaded.cleared
        /\ ~loaded.committed
        /\ fb = drawLoadingScreen("Scanning images...")
        /\ panel = drawLoadingScreen("Scanning images...")


\* ------------------------------------------------------------------------
\* Shorthands of the loader properties
\* ------------------------------------------------------------------------
\* the file is complete and passes the checks of signature and depth, with
\* a depth that is drawn
HeaderPasses(f) ==
    /\ f.fileSize >= BMP_HEADER_SIZE
    /\ f.bytesRead = f.fileSize
    /\ f.signature = BMP_SIGNATURE
    /\ f.bitsPerPixel \in Depths

\* row stride of the BMP format
Stride(bpp, width) == ((bpp * abs(width) + 31) \div 32) * 4

\* the announced pixel data lies in the buffer, behind the header
OffsetFits(f) ==
    /\ f.dataOffset >= BMP_HEADER_SIZE
    /\ f.dataOffset < f.fileSize
    /\ f.dataOffset + Stride(f.bitsPerPixel, f.width) * abs(f.height)
          <= f.fileSize

\* a valid image but for its compression code
WellFormed(f) ==
    /\ HeaderPasses(f)
    /\ f.width # 0
    /\ f.height # 0
    /\ OffsetFits(f)

\* byte k of the pixel at row r, column c of pixel memory
StoredByte(f, r, c, k) ==
    f.pixels[f.dataOffset - BMP_HEADER_SIZE
             + r * Stride(f.bitsPerPixel, f.width)
             + c * BytesPerPixel(f.bitsPerPixel) + k + 1]

PixelRows(f) == 0..(abs(f.height) - 1)
PixelCols(f) == 0..(abs(f.width) - 1)

\* the block of the framebuffer the loader drew into
BlockCols(r) == 0..(r.scaledWidth - 1)
BlockRows(r) == 0..(r.scaledHeight - 1)

\* ------------------------------------------------------------------------
\* Properties of the loader
\* ------------------------------------------------------------------------

\* C11 as stated: a file that is valid but for a non-zero compression code
\* is rejected: the load reports failure and nothing of the file is drawn
\* or committed.
C11_AsStated ==
    (loaded.done /\ WellFormed(file) /\ file.compression # 0) =>
        /\ ~loaded.ok
        /\ ~loaded.drawn
        /\ ~loaded.committed

\* C12 as stated: a file whose pixel-data offset lies outside the buffer or
\* leaves fewer than stride * |height| bytes is rejected, and every pixel
\* byte read while rendering an accepted file lies in [0, fileSize).
C12_AsStated ==
    loaded.done =>
        /\ (/\ HeaderPasses(file)
            /\ file.width # 0
            /\ file.height # 0
            /\ ~OffsetFits(file)) => ~loaded.ok
        /\ loaded.ok => \A o \in loaded.reads : InBuffer(file, o)

\* C13 as stated: a file whose header width or height is zero is rejected
\* before the scaler runs: the load reports failure and has not touched the
\* framebuffer.
C13_AsStated ==
    (loaded.done /\ HeaderPasses(file)
        /\ (file.width = 0 \/ file.height = 0)) =>
        /\ ~loaded.ok
        /\ ~loaded.cleared

\* every pixel of the 24-bpp image is stored as the bytes 00 00 FF
SolidRed(f) ==
    /\ f.bitsPerPixel = 24
    /\ WellFormed(f)
    /\ \A r \in PixelRows(f), c \in PixelCols(f) :
          /\ StoredByte(f, r, c, 0) = 0
          /\ StoredByte(f, r, c, 1) = 0
          /\ StoredByte(f, r, c, 2) = UINT8_MAX

\* C14 as stated: a 24-bpp image all of whose pixels are stored as 00 00 FF
\* is rendered with every framebuffer pixel of the drawn block RED.
C14_AsStated ==
    (loaded.ok /\ SolidRed(file)) =>
        \A y \in BlockRows(loaded), x \in BlockCols(loaded) :
            BlockInk(loaded, x, y) = EPD_RED

\* C16 as stated: every pixel of an 8-bpp image is drawn with the ink the
\* quantizer gives for (g, g, g), g being the source byte of the pixel.
C16_AsStated ==
    (loaded.ok /\ file.bitsPerPixel = 8 /\ WellFormed(file)) =>
        \A p \in DOMAIN loaded.ink :
            LET g == StoredByte(file, p[1], p[2], 0)
            IN  loaded.ink[p] = rgbToEinkColor(g, g, g)

\* the same picture stored in the other row order: the sign of the height
\* changed and the rows of pixel memory reversed
RowOrderTwin(f) ==
    LET rs == Stride(f.bitsPerPixel, f.width)
        base == f.dataOffset - BMP_HEADER_SIZE
        n == rs * abs(f.height)
    IN  [f EXCEPT
           !.height = -f.height,
           !.pixels = [i \in DOMAIN f.pixels |->
              IF i <= base \/ i > base + n THEN f.pixels[i]
              ELSE f.pixels[base
                            + (abs(f.height) - 1 - (i - base - 1) \div rs) * rs
                            + ((i - base - 1) % rs) + 1]]]

\* the framebuffer a load leaves: where the block is and the ink of each of
\* its pixels (everything around it is cleared)
Framebuffer(r) ==
    [offsetX |-> r.offsetX, offsetY |-> r.offsetY,
     block |-> [y \in BlockRows(r) |->
                   [x \in BlockCols(r) |-> BlockInk(r, x, y)]]]

\* C17: for each drawn depth, a bottom-up image and the top-down image of
\* the same size whose pixel rows are stored in reverse order are rendered
\* to identical framebuffers.
C17_RowOrderEquivalence ==
    (loaded.ok /\ WellFormed(file) /\ file.height > 0) =>
        LET twin == loadAndDisplayBMP(RowOrderTwin(file), Fault)
        IN  /\ twin.ok
            /\ Framebuffer(twin) = Framebuffer(loaded)

\* C17 case: a bottom-up image of two rows that differ has been rendered:
\* the second row of pixel memory is at the top of the block, the first at
\* its bottom
C17_Witness ==
    /\ loaded.ok
    /\ WellFormed(file)
    /\ file.height = 2
    /\ file.bitsPerPixel = 24
    /\ loaded.scaledHeight > 1
    /\ loaded.srcY[0] = 1
    /\ loaded.srcY[loaded.scaledHeight - 1] = 0
    /\ BlockInk(loaded, 0, 0) = EPD_WHITE
    /\ BlockInk(loaded, 0, loaded.scaledHeight - 1) = EPD_BLACK

\* ------------------------------------------------------------------------
\* Properties of the functions called on their own
\* ------------------------------------------------------------------------
\* the call of fn has returned
Returned(fn) == pc = "return" /\ call.fn = fn

\* C15: for every (R, G, B), with gray = (30R + 59G + 11B) div 100, the
\* quantizer returns BLACK iff gray < 85, RED iff gray >= 85 and R > 128 and
\* R > G and R > B and gray > 100, and WHITE in every other case; gray fits
\* the 8-bit intermediate.
C15_QuantizerRule ==
    Returned("rgbToEinkColor") =>
        LET gray == (30 * call.r + 59 * call.g + 11 * call.b) \div 100
            red == /\ gray >= 85
                   /\ call.r > 128
                   /\ call.r > call.g
                   /\ call.r > call.b
                   /\ gray > 100
        IN  /\ result.value \in Inks
            /\ gray <= UINT8_MAX
            /\ Gray(call.r, call.g, call.b) = gray
            /\ (result.value = EPD_BLACK) <=> (gray < 85)
            /\ (result.value = EPD_RED) <=> red
            /\ (result.value = EPD_WHITE) <=> (gray >= 85 /\ ~red)

\* C15 case: the quantizer has returned RED for an orange pixel
C15_Witness ==
    /\ Returned("rgbToEinkColor")
    /\ call.r = UINT8_MAX
    /\ call.g = 128
    /\ call.b = 0
    /\ result.value = EPD_RED

\* the row stride of the BMP format, not truncated to 32 bits
StrideLaw(bpp, width) ==
    WMul(WDiv(WAdd(WMul(ToWide(width), bpp), 31), 32), 4)

C19_AsStated ==
    Returned("FitToDisplay") =>
        LET Sw == result.value.scaledWidth
            Sh == result.value.scaledHeight
        IN  /\ Sw <= DISPLAY_WIDTH
            /\ Sh <= DISPLAY_HEIGHT
            /\ Sw = DISPLAY_WIDTH \/ Sh = DISPLAY_HEIGHT
            /\ abs(Sw * call.imgHeight - Sh * call.imgWidth)
                  < call.imgWidth * call.imgHeight

\* the paths of the regular files of the directory whose name does not
\* start with '.' and ends with a recognised extension
ImagePaths(directory, entries) ==
    {directory \o <<"/">> \o e.d_name :
        e \in {e \in Range(entries) :
                  /\ e.d_type = DT_REG
                  /\ e.d_name[1] # "."
                  /\ isImage(e.d_name)}}

\* C20 as stated: the scan of a directory returns exactly its regular files
\* whose name does not start with '.' and ends with ".bmp" or ".BMP", each
\* once; other files, hidden entries and subdirectories are not returned.
C20_AsStated ==
    (Returned("scanForImages") /\ call.mounted /\ call.opens) =>
        /\ Range(result.value) = ImagePaths(call.directory, call.entries)
        /\ Len(result.value)
              = Cardinality(ImagePaths(call.directory, call.entries))


\* ------------------------------------------------------------------------
\* Skip policy, failed loads and SELECT
\* ------------------------------------------------------------------------
\* C21: for a list of N >= 1 images, any start index and any set of failing
\* images (all of them included), displayCurrentImage returns after at most
\* N load attempts, with the index inside the list; it has rendered the
\* image at that index, or has tried every image from the start index to
\* the end of the list and stopped at index 0.
C21_BoundedSkip ==
    (Returned("displayCurrentImage") /\ Len(call.files) >= 1) =>
        LET N == Len(call.files)
            r == result.value
        IN  /\ r.attempts <= N
            /\ call.index < N => r.index \in 0..(N - 1)
            /\ r.loaded => call.files[r.index + 1]
            /\ (call.index < N /\ ~r.loaded) =>
                  /\ r.index = 0
                  /\ r.attempts = N - call.index
                  /\ \A i \in call.index..(N - 1) : ~call.files[i + 1]

\* C21 case: every image of a list of MaxImages fails and the call entered
\* at index 0 has returned after MaxImages attempts
C21_Witness ==
    /\ Returned("displayCurrentImage")
    /\ Len(call.files) = MaxImages
    /\ \A i \in DOMAIN call.files : ~call.files[i]
    /\ call.index = 0
    /\ result.value.attempts = MaxImages
    /\ ~result.value.loaded

\* C22: whenever loadAndDisplayBMP reports failure (file missing, size below
\* the header, short read, bad signature, rejected depth) it has cleared no
\* framebuffer, written no pixel and committed nothing: framebuffer and
\* panel are as they were before the call.
C22_FailedLoadLeavesFrame ==
    (loaded.done /\ ~loaded.ok /\ ~loaded.fault) =>
        /\ ~HeaderPasses(file)
        /\ ~loaded.cleared
        /\ ~loaded.drawn
        /\ ~loaded.committed
        /\ loaded.ink = <<>>
        /\ fb = drawLoadingScreen("Scanning images...")
        /\ panel = drawLoadingScreen("Scanning images...")

\* C22 case: a complete file with a wrong signature has been rejected and
\* the panel still shows the frame of before the call
C22_Witness ==
    /\ loaded.done
    /\ ~loaded.ok
    /\ file.fileSize >= BMP_HEADER_SIZE
    /\ file.bytesRead = file.fileSize
    /\ file.signature # BMP_SIGNATURE
    /\ panel = drawLoadingScreen("Scanning images...")

\* this step is the task leaving position p (the interrupt handler moves no
\* position)
Leaves(p) == pc = p /\ pc' # p

\* this step takes a SELECT press from the queue in DISPLAYING
SelectTaken == pc = "recv" /\ pc' = "select_commit"

\* the handler of SELECT up to its displayCurrentImage: the flag flips when
\* the press is taken, the indicator is drawn over the frame and committed,
\* and flag, list and index stay as they are through commit and delay
SelectToggles ==
    /\ SelectTaken =>
          /\ s_state = DISPLAYING
          /\ s_autoAdvance' = ~s_autoAdvance
          /\ fb' = [fb EXCEPT !.overlay =
                                IF s_autoAdvance' THEN "AUTO" ELSE "MANUAL"]
          /\ UNCHANGED <<s_imageFiles, s_currentImageIndex>>
    /\ Leaves("select_commit") =>
          /\ pc' = "select_delay"
          /\ panel' = fb
          /\ UNCHANGED <<s_autoAdvance, s_imageFiles, s_currentImageIndex>>
    /\ pc \in {"select_delay", "select_image_commit"} =>
          UNCHANGED <<s_autoAdvance, s_imageFiles>>
    /\ (pc \in TaskPositions /\ pc' \in TaskPositions /\ ~SelectTaken) =>
          UNCHANGED s_autoAdvance

\* C23 as stated: handling SELECT in DISPLAYING flips the auto flag, shows
\* the indicator and then restores the image at the current index, with
\* index and list unchanged.
C23_AsStated ==
    [][/\ SelectToggles
       /\ Leaves("select_delay") =>
             /\ s_currentImageIndex' = s_currentImageIndex
             /\ fb' = ImageFrame(s_currentImageIndex)
             /\ pc' = "select_image_commit"]_vars

\* C23: handling SELECT in DISPLAYING flips the auto flag (so two SELECT
\* presses in a row give the flag its first value back), shows the
\* indicator and leaves the list unchanged; it restores the image at the
\* current index and leaves the index unchanged when that image loads, and
\* otherwise leaves the index where displayCurrentImage's skip puts it.
C23_SelectTogglesAuto ==
    [][/\ SelectToggles
       /\ (Leaves("select_delay") /\ Loads(s_currentImageIndex)) =>
             /\ s_currentImageIndex' = s_currentImageIndex
             /\ fb' = ImageFrame(s_currentImageIndex)
             /\ pc' = "select_image_commit"
       /\ (Leaves("select_delay") /\ ~Loads(s_currentImageIndex)
              /\ ~s_autoAdvance) =>
             s_currentImageIndex'
                = displayCurrentImage(s_imageFiles,
                                      s_currentImageIndex).index
       /\ Leaves("select_image_commit") =>
             panel' = ImageFrame(s_currentImageIndex)]_vars

\* C23 case: a second SELECT has put the flag back to off, the panel shows
\* its indicator and the image of the unchanged index is drawn again
C23_Witness ==
    /\ pc = "select_image_commit"
    /\ ~s_autoAdvance
    /\ panel = [ImageFrame(s_currentImageIndex) EXCEPT !.overlay = "MANUAL"]
    /\ fb = ImageFrame(s_currentImageIndex)
    /\ Len(consumed) = 2

\* ------------------------------------------------------------------------
\* Deep sleep
\* ------------------------------------------------------------------------
\* the controller's state, the display and the queue
Controller ==
    <<s_state, s_imageFiles, s_currentImageIndex, s_autoAdvance,
      s_buttonQueue, consumed, fb, panel, ext1>>

\* C24: every entry into deep sleep comes from the inactivity block: the
\* "Sleeping..." frame is committed, then configure_wakeup() arms all three
\* button lines, then, after the delay, the chip sleeps; it never sleeps
\* with the wake source not armed, and once it sleeps nothing is rendered
\* and no button is handled until it wakes.
C24_SleepEntryOrder ==
    [][/\ Leaves("sleep_commit") =>
             /\ fb = TextFrame("Sleeping...")
             /\ panel' = TextFrame("Sleeping...")
             /\ ext1'.mask = SlideshowButtonId
             /\ ext1'.mode # "none"
             /\ pc' = "sleep_delay"
       /\ Leaves("sleep_delay") =>
             /\ pc' = "asleep"
             /\ UNCHANGED Controller
       /\ (pc' = "asleep" /\ pc # "asleep") =>
             /\ pc = "sleep_delay"
             /\ panel = TextFrame("Sleeping...")
             /\ ext1.mask = SlideshowButtonId
             /\ ext1.mode # "none"
       /\ (pc' = "sleep_delay" /\ pc # "sleep_delay") => pc = "sleep_commit"
       /\ (pc = "asleep" /\ pc' = "asleep") => UNCHANGED Controller
       /\ Leaves("asleep") => pc' = "boot"]_vars

\* C24 case: the chip sleeps with "Sleeping..." on the panel and the wake
\* source armed on the three lines
C24_Witness ==
    /\ pc = "asleep"
    /\ panel = TextFrame("Sleeping...")
    /\ ext1.mask = SlideshowButtonId
    /\ s_state = DISPLAYING

\* the positions from the inactivity block's decision to sleep onwards
SleepPositions == {"sleep_commit", "sleep_delay", "asleep"}

\* C25: the controller decides to sleep only at a check that finds
\* now - lastActivity >= T_inactive, and every press taken from the queue
\* sets lastActivity to now; so on the way into deep sleep and in it the
\* last press taken (or the start-up) is at least T_inactive old.
C25_NoPrematureSleep ==
    [][/\ (pc' \in SleepPositions /\ pc \notin SleepPositions) =>
             /\ pc' = "sleep_commit"
             /\ activityAge' >= T_INACTIVE
       /\ pc \in SleepPositions => activityAge >= T_INACTIVE
       /\ (pc = "recv" /\ Len(consumed') > Len(consumed)) =>
             /\ activityAge' = 0
             /\ pc' \notin SleepPositions]_vars

\* C25 case: a press was taken from the queue and the check that finds it
\* exactly T_inactive old has decided to sleep
C25_Witness ==
    /\ pc = "sleep_commit"
    /\ consumed # <<>>
    /\ activityAge = T_INACTIVE
    /\ fb = TextFrame("Sleeping...")

\* ------------------------------------------------------------------------
\* Screen and index
\* ------------------------------------------------------------------------
\* C26 as stated: whenever the controller is idle in DISPLAYING (the task is
\* at its queue receive) and at least one image of the list loads, the panel
\* shows the image at the current index.
C26_AsStated ==
    (/\ pc = "recv"
     /\ s_state = DISPLAYING
     /\ \E i \in 0..(ImageCount - 1) : Loads(i)) =>
        panel = ImageFrame(s_currentImageIndex)

\* the index the start-up leaves, from displayCurrentImage at index 0
StartIndex == displayCurrentImage(s_imageFiles, 0).index

\* C27 as stated: when only UP, or only DOWN, is pressed again and again,
\* every image of the list that loads gets displayed after finitely many
\* presses.  The handler depends on list and index only, so a single press
\* that leaves the controller idle with the index and the panel of the
\* start-up is repeated by every further press of that button; the claim
\* allows this only when no other image of the list loads.
C27_AsStated ==
    (/\ pc = "recv"
     /\ s_state = DISPLAYING
     /\ handled \in {<<UP>>, <<DOWN>>}
     /\ s_currentImageIndex = StartIndex
     /\ panel = ImageFrame(StartIndex)) =>
        \A i \in 0..(ImageCount - 1) : Loads(i) => i = s_currentImageIndex

\* ------------------------------------------------------------------------
\* Scaler bounds
\* ------------------------------------------------------------------------
\* C28: for every image of at least 1 x 1 and every destination pixel (x, y)
\* of the scaled block, the source column srcX lies in [0, Iw), the source
\* row lies in [0, Ih) in both row orders, and the destination
\* (Ox + x, Oy + y) lies on the panel, Ox and Oy not negative.
C28_ScalerInBounds ==
    Returned("FitToDisplay") =>
        LET fit == result.value
            Iw == call.imgWidth
            Ih == call.imgHeight
        IN  /\ fit.offsetX \in 0..(DISPLAY_WIDTH - 1)
            /\ fit.offsetY \in 0..(DISPLAY_HEIGHT - 1)
            /\ \A x \in 0..(fit.scaledWidth - 1) :
                  /\ SourceCoord(x, fit.scale) \in 0..(Iw - 1)
                  /\ fit.offsetX + x \in 0..(DISPLAY_WIDTH - 1)
            /\ \A y \in 0..(fit.scaledHeight - 1) :
                  LET srcY == SourceCoord(y, fit.scale) IN
                  /\ SourceRow(srcY, Ih, TRUE) \in 0..(Ih - 1)
                  /\ SourceRow(srcY, Ih, FALSE) \in 0..(Ih - 1)
                  /\ fit.offsetY + y \in 0..(DISPLAY_HEIGHT - 1)

\* C28 case: an image larger than the panel on both sides has been scaled
\* down to the panel's full height, and the last destination row takes the
\* last source row
C28_Witness ==
    /\ Returned("FitToDisplay")
    /\ call.imgWidth = DISPLAY_WIDTH + 1
    /\ call.imgHeight = 2 * DISPLAY_HEIGHT + 1
    /\ result.value.scaledHeight = DISPLAY_HEIGHT
    /\ SourceCoord(DISPLAY_HEIGHT - 1, result.value.scale)
          >= call.imgHeight - 3

\* ------------------------------------------------------------------------
\* Auto-advance dwell and the activity stamp
\* ------------------------------------------------------------------------
\* ticks until the auto-advance block fires next, button events absent: it
\* fires at the first poll that finds now - lastAdvance >= T_advance
UntilNextAdvance == T_ADVANCE - advanceAge

\* C29 as stated: with auto-advance on and no button events, when the commit
\* of an auto-advanced image has returned, the next auto-advance is at least
\* T_advance away, whatever the commit latency.
C29_AsStated ==
    [][Leaves("auto_commit") => UntilNextAdvance' >= T_ADVANCE]_vars

\* this step is a run of the interrupt handler
IsrRuns == arrivals' > arrivals

\* this step takes an event from the queue
EventTaken == Len(consumed') > Len(consumed)

\* C30: in the running task lastActivity is set only when a press is taken
\* from the queue: a poll that times out, an auto-advance firing with its
\* render and skips, and every commit and delay leave the stamp alone, so
\* that now - lastActivity grows by exactly the time the step takes; the
\* interrupt handler changes the queue and nothing else of the controller.
C30_OnlyPressesAreActivity ==
    [][/\ (pc = "recv" /\ pc' \in TaskPositions
              /\ ~EventTaken /\ ~IsrRuns) =>
             /\ activityAge' = activityAge + T_POLL
             /\ pc' \in {"recv", "auto_commit", "sleep_commit"}
       /\ Leaves("auto_commit") =>
             /\ activityAge' = activityAge + advanceAge'
             /\ advanceAge' \in CommitTicks
       /\ (Leaves("nav_commit") \/ Leaves("select_image_commit")) =>
             activityAge' - activityAge \in CommitTicks
       /\ (Leaves("select_commit") \/ Leaves("sleep_commit")) =>
             /\ activityAge' - activityAge = advanceAge' - advanceAge
             /\ activityAge' - activityAge \in CommitTicks
       /\ Leaves("select_delay") =>
             activityAge' = activityAge + T_INDICATOR
       /\ Leaves("sleep_delay") =>
             activityAge' = activityAge + T_SLEEP_DELAY
       /\ (EventTaken /\ pc = "recv") => activityAge' = 0
       /\ IsrRuns =>
             /\ s_buttonQueue' # s_buttonQueue \/ dropped' # dropped
             /\ UNCHANGED <<pc, s_state, s_imageFiles, s_currentImageIndex,
                            s_autoAdvance, activityAge, advanceAge,
                            consumed, fb, panel, ext1, s_mounted>>]_vars

\* C30 case: auto-advance was switched on by a press, an auto-advance has
\* fired and rendered since, and the activity stamp is still that of the
\* press, older than the advance stamp
C30_Witness ==
    /\ pc = "recv"
    /\ s_autoAdvance
    /\ consumed # <<>>
    /\ panel = ImageFrame(s_currentImageIndex)
    /\ activityAge > T_ADVANCE
    /\ advanceAge < T_ADVANCE

====
